---- MODULE Spec2Model ----
(***************************************************************************)
(* pydantic_stack_core: RenderablePiece, MetaStack and                     *)
(* generate_output_from_metastack (src/pydantic_stack_core/core.py).       *)
(*                                                                         *)
(* A Python str is a sequence of characters; a character is written as a   *)
(* one-element name ("LF" is the newline character, "BACKSLASH" is \).     *)
(* A Python list lives on a heap and a MetaStack holds a reference to it.  *)
(* The outcome of a call is a record: kind "ok" (a str in value), "none"   *)
(* (the call returned None) or "raise" (error and name of the exception).  *)
(***************************************************************************)
EXTENDS Integers, Sequences, FiniteSets, TLC

\* Bounds of the model.
MaxPieces == 3        \* pieces held by all lists of the heap together

\* Two MetaStack instances, and the lists they can hold.
StackIds == {1, 2}
ListIds == {1, 2}
\* Indexes passed to insert_piece on a list of length n: every position
\* 0..n, every negative index that counts from the end, and one index out
\* of range on each side.
IndexRange(n) == (0 - n - 1)..(n + 1)

VARIABLES stacks, heap, lastOp, out, trace

vars == <<stacks, heap, lastOp, out, trace>>

----------------------------------------------------------------------------
\* Outcomes of a call.
Ok(s) == [kind |-> "ok", value |-> s, error |-> "", name |-> ""]
None == [kind |-> "none", value |-> <<>>, error |-> "", name |-> ""]
Raise(e, n) == [kind |-> "raise", value |-> <<>>, error |-> e, name |-> n]

----------------------------------------------------------------------------
\* Classes deriving from RenderablePiece that a caller defines.
\*   Title      render returns '#' * level + ' ' + text   (level 1, text "T")
\*   Paragraph  render returns content                    (content "")
\*   Super      render returns super().render()
\*   Faulty     render raises ValueError
\*   Bare       defines no render
PieceTypes == {"RenderablePiece", "Title", "Paragraph", "Super", "Faulty", "Bare"}

OverridesRender(t) == t \in {"Title", "Paragraph", "Super", "Faulty"}

\* @abstractmethod on RenderablePiece.render: the class and every subclass
\* that does not override render keep render in __abstractmethods__.
AbstractMethods(t) == IF OverridesRender(t) THEN {} ELSE {"render"}

\* Calling a class: the metaclass of BaseModel derives from ABCMeta, so
\* object.__new__ refuses a class whose __abstractmethods__ is not empty.
Instantiate(t) ==
    IF AbstractMethods(t) # {} THEN Raise("TypeError", t) ELSE Ok(<<>>)

\* The instances a caller can hold.
Pieces == {t \in PieceTypes : Instantiate(t).kind = "ok"}

\* RenderablePiece.render: the body of the base method.
RenderablePiece_render(t) == Raise("NotImplementedError", t)

\* piece.render() by method resolution on the class of the piece.
piece_render(t) ==
    CASE t = "Title" -> Ok(<<"#", " ", "T">>)
      [] t = "Paragraph" -> Ok(<<>>)
      [] t = "Faulty" -> Raise("ValueError", t)
      [] OTHER -> RenderablePiece_render(t)

----------------------------------------------------------------------------
\* A join that ends every item with the separator.
RECURSIVE str_join_trailing(_, _)
str_join_trailing(sep, strs) ==
    IF strs = <<>> THEN <<>>
    ELSE strs[1] \o sep \o str_join_trailing(sep, Tail(strs))

\* str.join: the items with the separator between consecutive items.
RECURSIVE str_join(_, _)
str_join(sep, strs) ==
    IF strs = <<>> THEN <<>>
    ELSE IF Len(strs) = 1 THEN strs[1]
    ELSE strs[1] \o sep \o str_join(sep, Tail(strs))

\* A comprehension that swallows a failing render and goes on.
RECURSIVE render_each_skip(_, _, _)
render_each_skip(ps, i, acc) ==
    IF i > Len(ps) THEN [kind |-> "ok", strs |-> acc, calls |-> i - 1, exc |-> None]
    ELSE LET r == piece_render(ps[i]) IN
         render_each_skip(ps, i + 1, IF r.kind = "raise" THEN acc ELSE Append(acc, r.value))

\* [piece.render() for piece in self.pieces]: left to right, the first
\* exception ends the comprehension.  calls is the number of render calls.
RECURSIVE render_each(_, _, _)
render_each(ps, i, acc) ==
    IF i > Len(ps) THEN [kind |-> "ok", strs |-> acc, calls |-> i - 1, exc |-> None]
    ELSE LET r == piece_render(ps[i]) IN
         IF r.kind = "raise"
         THEN [kind |-> "raise", strs |-> <<>>, calls |-> i, exc |-> r]
         ELSE render_each(ps, i + 1, Append(acc, r.value))

\* MetaStack.render on the pieces ps and the separator sep.
MetaStack_render(ps, sep) ==
    IF ps = <<>> THEN [result |-> Ok(<<>>), calls |-> 0]
    ELSE LET r == render_each(ps, 1, <<>>) IN
         IF r.kind = "raise" THEN [result |-> r.exc, calls |-> r.calls]
         ELSE [result |-> Ok(str_join(sep, r.strs)), calls |-> r.calls]

\* An insertion position that sends every negative index to the front.
list_insert_where_front(n, index) ==
    IF index < 0 THEN 0 ELSE IF index > n THEN n ELSE index

\* list.insert (CPython ins1): a negative index counts from the end, and
\* the index is then clamped to 0..len.
list_insert_where(n, index) ==
    LET w == IF index < 0 THEN index + n ELSE index IN
    IF w < 0 THEN 0 ELSE IF w > n THEN n ELSE w

\* An insertion one position too far to the right.
list_insert_after(l, index, v) ==
    LET n == Len(l)
        w0 == list_insert_where(n, index)
        w == IF w0 < n THEN w0 + 1 ELSE n
    IN [j \in 1..(n + 1) |-> IF j <= w THEN l[j] ELSE IF j = w + 1 THEN v ELSE l[j - 1]]

list_insert(l, index, v) ==
    LET n == Len(l)
        w == list_insert_where(n, index)
    IN [j \in 1..(n + 1) |-> IF j <= w THEN l[j] ELSE IF j = w + 1 THEN v ELSE l[j - 1]]

\* An append that puts the item in front.
list_prepend(l, v) == <<v>> \o l

\* list.append
list_append(l, v) == Append(l, v)

----------------------------------------------------------------------------
\* Field defaults of MetaStack.
DefaultSeparator == <<"BACKSLASH", "n">>

\* A default shared by every instance (a mutable default such as []).
default_shared(fresh) == 1

\* default_factory=list: a new list for every instance.
default_factory(fresh) == fresh

\* Arguments a caller passes.
PiecesArgs == {<<>>, <<"Title">>, <<"Title", "Paragraph">>, <<"Faulty", "Super">>}
SeparatorArgs == {<<"LF">>, <<>>}
\* The first instance is constructed with or without each argument, the
\* second one as MetaStack().
GiveArgs(s) == IF s = 1 THEN BOOLEAN ELSE {FALSE}

----------------------------------------------------------------------------
NoStack == [constructed |-> FALSE, pieces |-> 0, separator |-> <<>>, fields_set |-> {}]
NoOp == [op |-> "none", stack |-> 0, index |-> 0, piece |-> ""]

Constructed(s) == stacks[s].constructed
PiecesOf(s) == heap[stacks[s].pieces]
SeparatorOf(s) == stacks[s].separator
Total == Len(heap[1]) + Len(heap[2])

Init ==
    /\ stacks = [s \in StackIds |-> NoStack]
    /\ heap = [l \in ListIds |-> <<>>]
    /\ lastOp = NoOp
    /\ out = None
    /\ trace = 0

\* t(...): instantiate a class deriving from RenderablePiece.
NewPiece(t) ==
    /\ lastOp' = [op |-> "new_piece", stack |-> 0, index |-> 0, piece |-> t]
    /\ out' = Instantiate(t)
    /\ trace' = 0
    /\ UNCHANGED <<stacks, heap>>

\* p.render() on an instance the caller holds.
PieceRender(p) ==
    /\ lastOp' = [op |-> "piece_render", stack |-> 0, index |-> 0, piece |-> p]
    /\ out' = piece_render(p)
    /\ trace' = 0
    /\ UNCHANGED <<stacks, heap>>

\* MetaStack(pieces=..., separator=...): either argument may be left out.
\* Validation of pieces builds a list of its own from the argument.
MetaStack(s, givePieces, ps, giveSep, sep) ==
    /\ ~Constructed(s)
    /\ \A r \in StackIds : r < s => Constructed(r)
    /\ Total + (IF givePieces THEN Len(ps) ELSE 0) <= MaxPieces
    /\ LET l == default_factory(s) IN
       /\ heap' = [heap EXCEPT ![l] = IF givePieces THEN ps ELSE heap[l]]
       /\ stacks' = [stacks EXCEPT ![s] =
              [constructed |-> TRUE,
               pieces |-> l,
               separator |-> IF giveSep THEN sep ELSE DefaultSeparator,
               fields_set |-> (IF givePieces THEN {"pieces"} ELSE {})
                              \cup (IF giveSep THEN {"separator"} ELSE {})]]
    /\ lastOp' = [op |-> "MetaStack", stack |-> s, index |-> 0, piece |-> ""]
    /\ out' = None
    /\ trace' = 0

\* A render that consumes the pieces it renders.
render_consuming(s) ==
    /\ Constructed(s)
    /\ LET r == MetaStack_render(PiecesOf(s), SeparatorOf(s)) IN
       /\ out' = r.result
       /\ trace' = r.calls
    /\ lastOp' = [op |-> "render", stack |-> s, index |-> 0, piece |-> ""]
    /\ heap' = [heap EXCEPT ![stacks[s].pieces] = <<>>]
    /\ UNCHANGED stacks

\* MetaStack.render
render(s) ==
    /\ Constructed(s)
    /\ LET r == MetaStack_render(PiecesOf(s), SeparatorOf(s)) IN
       /\ out' = r.result
       /\ trace' = r.calls
    /\ lastOp' = [op |-> "render", stack |-> s, index |-> 0, piece |-> ""]
    /\ UNCHANGED <<stacks, heap>>

\* MetaStack.add_piece
add_piece(s, p) ==
    /\ Constructed(s)
    /\ Total < MaxPieces
    /\ heap' = [heap EXCEPT ![stacks[s].pieces] = list_append(@, p)]
    /\ lastOp' = [op |-> "add_piece", stack |-> s, index |-> 0, piece |-> p]
    /\ out' = None
    /\ trace' = 0
    /\ UNCHANGED stacks

\* MetaStack.insert_piece
insert_piece(s, index, p) ==
    /\ Constructed(s)
    /\ Total < MaxPieces
    /\ heap' = [heap EXCEPT ![stacks[s].pieces] = list_insert(@, index, p)]
    /\ lastOp' = [op |-> "insert_piece", stack |-> s, index |-> index, piece |-> p]
    /\ out' = None
    /\ trace' = 0
    /\ UNCHANGED stacks

\* A wrapper that catches the failure of render and returns "".
generate_output_catching(s) ==
    /\ Constructed(s)
    /\ LET r == MetaStack_render(PiecesOf(s), SeparatorOf(s)) IN
       /\ out' = IF r.result.kind = "raise" THEN Ok(<<>>) ELSE r.result
       /\ trace' = r.calls
    /\ lastOp' = [op |-> "generate_output_from_metastack", stack |-> s,
                  index |-> 0, piece |-> ""]
    /\ UNCHANGED <<stacks, heap>>

\* generate_output_from_metastack
generate_output_from_metastack(s) ==
    /\ Constructed(s)
    /\ LET r == MetaStack_render(PiecesOf(s), SeparatorOf(s)) IN
       /\ out' = r.result
       /\ trace' = r.calls
    /\ lastOp' = [op |-> "generate_output_from_metastack", stack |-> s,
                  index |-> 0, piece |-> ""]
    /\ UNCHANGED <<stacks, heap>>

Next ==
    \/ \E t \in PieceTypes : NewPiece(t)
    \/ \E p \in Pieces : PieceRender(p)
    \/ \E s \in StackIds :
          \E givePieces \in GiveArgs(s), ps \in PiecesArgs,
             giveSep \in GiveArgs(s), sep \in SeparatorArgs :
             MetaStack(s, givePieces, ps, giveSep, sep)
    \/ \E s \in StackIds : render(s)
    \/ \E s \in StackIds, p \in Pieces : add_piece(s, p)
    \/ \E s \in {r \in StackIds : Constructed(r)} :
          \E index \in IndexRange(Len(PiecesOf(s))), p \in Pieces :
             insert_piece(s, index, p)
    \/ \E s \in StackIds : generate_output_from_metastack(s)

Spec == Init /\ [][Next]_vars

----------------------------------------------------------------------------
\* Vocabulary of the properties.
IsRender(s) == lastOp.op = "render" /\ lastOp.stack = s
IsMutator(op) == op \in {"add_piece", "insert_piece"}
Failing(ps) == {i \in 1..Len(ps) : piece_render(ps[i]).kind = "raise"}
FirstFailing(ps) == CHOOSE i \in Failing(ps) : \A j \in Failing(ps) : i <= j
Rendered(ps, i) == piece_render(ps[i]).value
\* Where the i-th rendered string starts in the joined string (0-based).
RECURSIVE StartOf(_, _, _)
StartOf(ps, sep, i) ==
    IF i = 1 THEN 0
    ELSE StartOf(ps, sep, i - 1) + Len(Rendered(ps, i - 1)) + Len(sep)
NoPiecesArg(s) == Constructed(s) /\ "pieces" \notin stacks[s].fields_set
NoSeparatorArg(s) == Constructed(s) /\ "separator" \notin stacks[s].fields_set

\* C1: render of a stack whose children all render returns "" for no pieces
\* and otherwise the children's strings in order, the separator between each
\* two consecutive ones and nowhere else (not in front, not at the end).
C1_RenderJoins ==
    \A s \in StackIds :
        (IsRender(s) /\ Failing(PiecesOf(s)) = {}) =>
            LET ps == PiecesOf(s)
                sep == SeparatorOf(s)
                n == Len(ps)
                v == out.value
            IN /\ out.kind = "ok"
               /\ n = 0 => v = <<>>
               /\ n = 1 => v = Rendered(ps, 1)
               /\ n > 0 =>
                    /\ Len(v) = StartOf(ps, sep, n) + Len(Rendered(ps, n))
                    /\ \A i \in 1..n :
                          SubSeq(v, StartOf(ps, sep, i) + 1,
                                 StartOf(ps, sep, i) + Len(Rendered(ps, i))) = Rendered(ps, i)
                    /\ \A i \in 1..(n - 1) :
                          SubSeq(v, StartOf(ps, sep, i) + Len(Rendered(ps, i)) + 1,
                                 StartOf(ps, sep, i + 1)) = sep

C1_Witness ==
    \E s \in StackIds :
        /\ IsRender(s)
        /\ PiecesOf(s) = <<"Title", "Paragraph", "Title">>
        /\ SeparatorOf(s) = DefaultSeparator
        /\ out = Ok(<<"#", " ", "T", "BACKSLASH", "n", "BACKSLASH", "n", "#", " ", "T">>)

C3_InsertInRange ==
    [][\A s \in StackIds :
          (/\ lastOp'.op = "insert_piece" /\ lastOp'.stack = s
           /\ 0 <= lastOp'.index /\ lastOp'.index <= Len(PiecesOf(s)))
          => LET old == PiecesOf(s)
                 new == PiecesOf(s)'
                 n == Len(old)
                 i == lastOp'.index
                 x == lastOp'.piece
             IN /\ Len(new) = n + 1
                /\ new[i + 1] = x
                /\ \A j \in 1..i : new[j] = old[j]
                /\ \A j \in (i + 1)..n : new[j + 1] = old[j]
                /\ i = 0 => new[1] = x
                /\ i = n => heap' = [heap EXCEPT ![stacks[s].pieces] = list_append(@, x)]]_vars

C3_Witness ==
    \E s \in StackIds :
        /\ lastOp.op = "insert_piece" /\ lastOp.stack = s
        /\ lastOp.index = 1
        /\ lastOp.piece = "Super"
        /\ PiecesOf(s) = <<"Title", "Super", "Paragraph">>

\* C4: add_piece(x) makes pieces one longer with x last, leaves every
\* earlier element at its position and leaves the separator alone.
C4_AddPieceAppends ==
    [][\A s \in StackIds :
          (lastOp'.op = "add_piece" /\ lastOp'.stack = s)
          => LET old == PiecesOf(s)
                 new == PiecesOf(s)'
             IN /\ Len(new) = Len(old) + 1
                /\ new[Len(new)] = lastOp'.piece
                /\ \A j \in 1..Len(old) : new[j] = old[j]
                /\ SeparatorOf(s)' = SeparatorOf(s)]_vars

C4_Witness ==
    \E s \in StackIds :
        /\ lastOp.op = "add_piece" /\ lastOp.stack = s
        /\ lastOp.piece = "Paragraph"
        /\ PiecesOf(s) = <<"Faulty", "Title", "Paragraph">>

\* C5 as claimed: a MetaStack constructed without a separator has the one
\* character newline as its separator, and its render of two pieces is the
\* first string, one newline, the second string.
C5_DefaultSeparatorIsNewline ==
    \A s \in StackIds :
        NoSeparatorArg(s) =>
            /\ SeparatorOf(s) = <<"LF">>
            /\ (IsRender(s) /\ Len(PiecesOf(s)) = 2 /\ Failing(PiecesOf(s)) = {}) =>
                   out = Ok(Rendered(PiecesOf(s), 1) \o <<"LF">> \o Rendered(PiecesOf(s), 2))

\* C6 as claimed: a class deriving from RenderablePiece without a render of
\* its own can be instantiated, and render on the instance raises
\* NotImplementedError naming the class.
C6_ConstructsThenRenderFails ==
    /\ (lastOp.op = "new_piece" /\ lastOp.piece = "Bare") => out.kind = "ok"
    /\ (lastOp.op = "piece_render" /\ ~OverridesRender(lastOp.piece)) =>
           out = Raise("NotImplementedError", lastOp.piece)

\* C7: generate_output_from_metastack(stack) returns what stack.render()
\* returns, fails as it fails, and changes neither pieces nor separator.
C7_GenerateDelegates ==
    [][\A s \in StackIds :
          (lastOp'.op = "generate_output_from_metastack" /\ lastOp'.stack = s)
          => /\ out' = MetaStack_render(PiecesOf(s), SeparatorOf(s)).result
             /\ heap' = heap
             /\ stacks' = stacks]_vars

C7_Witness ==
    \E s \in StackIds :
        /\ lastOp.op = "generate_output_from_metastack" /\ lastOp.stack = s
        /\ PiecesOf(s) = <<"Title", "Super">>
        /\ out = Raise("NotImplementedError", "Super")

\* C8: render returns a string when every child renders; otherwise it raises
\* the error of the first failing child as that child raised it, returns no
\* string, and has rendered no child after that one.
C8_RenderPropagates ==
    \A s \in StackIds :
        IsRender(s) =>
            LET ps == PiecesOf(s) IN
            IF Failing(ps) = {}
            THEN out.kind = "ok" /\ trace = Len(ps)
            ELSE /\ out = piece_render(ps[FirstFailing(ps)])
                 /\ out.kind = "raise"
                 /\ out.value = <<>>
                 /\ trace = FirstFailing(ps)

C8_Witness ==
    \E s \in StackIds :
        /\ IsRender(s)
        /\ PiecesOf(s) = <<"Title", "Faulty", "Super">>
        /\ out = Raise("ValueError", "Faulty")
        /\ trace = 2

\* C9: render changes neither pieces nor separator of any stack, and a
\* render that follows a render of the same stack returns the same result.
C9_RenderPure ==
    [][\A s \in StackIds :
          (lastOp'.op = "render" /\ lastOp'.stack = s)
          => /\ heap' = heap
             /\ stacks' = stacks
             /\ IsRender(s) => out' = out]_vars

C9_Witness ==
    \E s \in StackIds :
        /\ IsRender(s)
        /\ PiecesOf(s) = <<"Paragraph", "Title">>
        /\ SeparatorOf(s) = <<"LF">>
        /\ out = Ok(<<"LF", "#", " ", "T">>)

\* C10: of two stacks constructed without a pieces argument, each starts
\* empty (and renders to ""), and add_piece or insert_piece on one of them
\* leaves the pieces of the other as they were.
C10_IndependentDefaults ==
    [][\A s \in StackIds :
          /\ (lastOp'.op = "MetaStack" /\ lastOp'.stack = s /\ NoPiecesArg(s)')
             => /\ PiecesOf(s)' = <<>>
                /\ MetaStack_render(PiecesOf(s)', SeparatorOf(s)').result = Ok(<<>>)
          /\ \A t \in StackIds \ {s} :
                (/\ NoPiecesArg(s) /\ NoPiecesArg(t)
                 /\ IsMutator(lastOp'.op) /\ lastOp'.stack = s)
                => PiecesOf(t)' = PiecesOf(t)]_vars

C10_Witness ==
    /\ NoPiecesArg(1) /\ NoPiecesArg(2)
    /\ IsMutator(lastOp.op) /\ lastOp.stack = 1
    /\ Len(PiecesOf(1)) = 2
    /\ PiecesOf(2) = <<>>

====
